---- MODULE Spec2Model ----
(***************************************************************************)
(* Model of the retrieval and embedding core of app-RAG:                   *)
(*   backend/core/chunking.py    TextChunker                               *)
(*   backend/core/embeddings.py  EmbeddingGenerator                        *)
(*   backend/core/retrieval.py   VectorRetriever, HybridRetriever          *)
(*   backend/api/routes/documents.py  process_document_background          *)
(*                                                                         *)
(* Texts are sequences of one-character strings, offsets are 0-based as in *)
(* Python.  Scores, similarities and weights are fixed-point numbers in    *)
(* hundredths (60 stands for 0.6).                                         *)
(***************************************************************************)
EXTENDS Integers, Sequences, FiniteSets, TLC

VARIABLES
    ck_text,    \* chunk_text: the text argument
    ck_cfg,     \* chunk_text: the TextChunker's configuration fields
    ck_pc,      \* chunk_text: "call" before the call, "done" once it has returned
    ck_out,     \* chunk_text: the returned list of chunks
    pd_pc,      \* DocumentProcessor.process_document: "call", then "returned" or "raised"
    pd_req,     \* DocumentProcessor.process_document: mime_type and what the file holds
    pd_calls,   \* DocumentProcessor.process_document: the extractor and chunker calls made, in order
    pd_ret,     \* DocumentProcessor.process_document: the tuple returned or the error raised
    cw_pc,      \* window loops: "loop" inside the while loop, "done" once the method has returned
    cw_in,      \* window loops: the method, the string it walks and the offset of that string
    cw_start,   \* window loops: the local start
    cw_chunks,  \* window loops: the local chunks
    cw_hist,    \* history: per iteration, its start, its end and where rfind found the last space
    eg_pc,      \* generate_embeddings: position of the call
    eg_in,      \* generate_embeddings: its inputs and the generator's environment
    eg_i,       \* _generate_with_provider: the batch loop's i
    eg_tasks,   \* _generate_batch_embeddings: per batch position, Pending or the task's outcome
    eg_prov,    \* _generate_with_provider: its locals embeddings, total_tokens, errors
    eg_out,     \* generate_embeddings: its locals embeddings, total_tokens, errors; the result at "done"
    eg_ret,     \* generate_single_embedding: the value returned
    eg_log,     \* history: per text, whether its provider task was issued and how it ended
    in_pc,      \* process_document_background: position of the task
    in_k,       \* process_document_background: chunks saved so far by the zip loop
    db_chunks,  \* rows of document_chunks written for the document
    db_processed, \* the document's processed flag
    up_doc,     \* the uploaded document: whether its row exists, how many chunks its text yields
    bg_pc,      \* per scheduled process_document_background task, its position
    bg_k,       \* per scheduled process_document_background task, chunks it has saved
    rq_status,  \* POST /documents/process: status of the last response
    store,      \* rows of document_chunks the retrievers search
    documents,  \* rows of documents
    sr_pc,      \* retrieval: "ready" before the request, "done" once it has returned, "raised" if it raised
    sr_req,     \* retrieval: the request's arguments, and what generate_single_embedding gave for the query
    sr_resp,    \* retrieval: the SearchResponse returned
    sr_queries, \* retrieval: the store queries the request executed, in order
    sr_vector,  \* hybrid_search: vector_results.results as returned by the vector pass
    sr_keyword  \* hybrid_search: keyword_results as returned by _keyword_search

pdVars == <<pd_pc, pd_req, pd_calls, pd_ret>>
cwVars == <<cw_pc, cw_in, cw_start, cw_chunks, cw_hist>>
ckVars == <<ck_text, ck_cfg, ck_pc, ck_out, pdVars, cwVars>>
egVars == <<eg_pc, eg_in, eg_i, eg_tasks, eg_prov, eg_out, eg_ret, eg_log>>
runVars == <<up_doc, bg_pc, bg_k, rq_status>>
inVars == <<in_pc, in_k, db_chunks, db_processed, runVars>>
srVars == <<store, documents, sr_pc, sr_req, sr_resp, sr_queries, sr_vector, sr_keyword>>
vars == <<ckVars, egVars, inVars, srVars>>

(***************************************************************************)
(* Bounds                                                                  *)
(***************************************************************************)
\* longest input text handed to chunk_text
MaxLen == 4
\* most texts handed to generate_embeddings, most chunks of an ingested document
MaxTexts == 3
\* largest batch_size argument
MaxBatch == 2

Min(a, b) == IF a <= b THEN a ELSE b
Max(a, b) == IF a >= b THEN a ELSE b

\* the parts of the state a specification does not use stay at these values
PdIdle == pd_pc = "idle" /\ pd_req = <<>> /\ pd_calls = <<>> /\ pd_ret = <<>>
CwIdle ==
    cw_pc = "idle" /\ cw_in = <<>> /\ cw_start = 0 /\ cw_chunks = <<>> /\ cw_hist = <<>>
CkIdle ==
    ck_text = <<>> /\ ck_cfg = <<>> /\ ck_pc = "idle" /\ ck_out = <<>> /\ PdIdle /\ CwIdle
EgIdle ==
    /\ eg_pc = "idle" /\ eg_in = <<>> /\ eg_i = 0
    /\ eg_tasks = <<>> /\ eg_prov = <<>> /\ eg_out = <<>> /\ eg_log = <<>>
    /\ eg_ret = [src |-> "none", text |-> 0, dim |-> 0]
RunIdle == up_doc = <<>> /\ bg_pc = <<>> /\ bg_k = <<>> /\ rq_status = "none"
InIdle == in_pc = "idle" /\ in_k = 0 /\ db_chunks = <<>> /\ db_processed = FALSE /\ RunIdle
SrIdle ==
    /\ store = {} /\ documents = {} /\ sr_pc = "idle" /\ sr_req = <<>> /\ sr_resp = <<>>
    /\ sr_queries = <<>> /\ sr_vector = <<>> /\ sr_keyword = <<>>

(***************************************************************************)
(* Characters and Python string helpers                                    *)
(***************************************************************************)
\* stands for one control character of [\x00-\x08\x0b\x0c\x0e-\x1f\x7f], e.g. \x01
CtrlChar == "\\x01"
\* the characters input texts are made of
Alphabet == {"a", " ", "\n", ".", CtrlChar}
\* what the regex class \s and str.strip() treat as whitespace
IsSpace(c) == c \in {" ", "\n", "\r", "\t"}
\* the class [\x00-\x08\x0b\x0c\x0e-\x1f\x7f]
IsControl(c) == c = CtrlChar
\* the class [.!?]
IsTerminal(c) == c \in {".", "!", "?"}

\* s[a:b] with 0 <= a, b <= len(s)
Slice(s, a, b) == SubSeq(s, a + 1, b)

RECURSIVE LStrip(_)
LStrip(s) == IF s # <<>> /\ IsSpace(Head(s)) THEN LStrip(Tail(s)) ELSE s

RECURSIVE RStrip(_)
RStrip(s) ==
    IF s # <<>> /\ IsSpace(s[Len(s)]) THEN RStrip(SubSeq(s, 1, Len(s) - 1)) ELSE s

\* a strip that removes nothing
Strip_Identity(s) == s

\* str.strip()
Strip(s) == RStrip(LStrip(s))

\* str.rfind(' ', start, end): the highest index in [start, end) holding a space, else -1
RFindSpace(s, start, end) ==
    LET hits == {i \in start..(end - 1) : s[i + 1] = " "}
    IN  IF hits = {} THEN -1 ELSE CHOOSE i \in hits : \A j \in hits : j <= i

\* re.sub(r'\s+', ' ', text)
RECURSIVE CollapseWs(_)
CollapseWs(s) ==
    IF s = <<>> THEN <<>>
    ELSE IF IsSpace(Head(s)) THEN <<" ">> \o CollapseWs(LStrip(s))
    ELSE <<Head(s)>> \o CollapseWs(Tail(s))

\* re.sub(r'[\x00-\x08\x0b\x0c\x0e-\x1f\x7f]', '', text)
RemoveControl(s) == SelectSeq(s, LAMBDA c : ~IsControl(c))

\* re.sub(r'\r\n|\r', '\n', text)
RECURSIVE NormalizeBreaks(_)
NormalizeBreaks(s) ==
    IF s = <<>> THEN <<>>
    ELSE IF Head(s) = "\r"
         THEN IF Len(s) >= 2 /\ s[2] = "\n"
              THEN <<"\n">> \o NormalizeBreaks(SubSeq(s, 3, Len(s)))
              ELSE <<"\n">> \o NormalizeBreaks(Tail(s))
    ELSE <<Head(s)>> \o NormalizeBreaks(Tail(s))

\* TextChunker._clean_text
CleanText(t) == Strip(NormalizeBreaks(RemoveControl(CollapseWs(t))))

\* str.split('\n\n'): the pieces between non-overlapping occurrences, left to right
RECURSIVE SplitBlankLine(_, _)
SplitBlankLine(s, cur) ==
    IF s = <<>> THEN <<cur>>
    ELSE IF Len(s) >= 2 /\ s[1] = "\n" /\ s[2] = "\n"
         THEN <<cur>> \o SplitBlankLine(SubSeq(s, 3, Len(s)), <<>>)
    ELSE SplitBlankLine(Tail(s), Append(cur, Head(s)))

\* number of leading characters of s in [.!?]
RECURSIVE TerminalRun(_)
TerminalRun(s) == IF s # <<>> /\ IsTerminal(Head(s)) THEN 1 + TerminalRun(Tail(s)) ELSE 0

\* number of leading whitespace characters of s
SpaceRun(s) == Len(s) - Len(LStrip(s))

\* re.split(r'[.!?]+\s+', text)
RECURSIVE SplitSentences(_, _)
SplitSentences(s, cur) ==
    IF s = <<>> THEN <<cur>>
    ELSE IF IsTerminal(Head(s))
         THEN LET p == TerminalRun(s)
                  rest == SubSeq(s, p + 1, Len(s))
                  w == SpaceRun(rest)
              IN  IF w > 0
                  THEN <<cur>> \o SplitSentences(SubSeq(rest, w + 1, Len(rest)), <<>>)
                  ELSE SplitSentences(rest, cur \o SubSeq(s, 1, p))
    ELSE SplitSentences(Tail(s), Append(cur, Head(s)))

(***************************************************************************)
(* TextChunker                                                             *)
(***************************************************************************)
\* dataclass TextChunk (metadata is carried along unchanged and left out)
TextChunk(content, start, end) ==
    [content |-> content, chunk_index |-> 0, start_char |-> start, end_char |-> end]

\* the body of the accumulation loop shared by the paragraph and sentence
\* strategies; st = [chunks, current_chunk, current_start], glue is the joiner
AccumulateStep(cfg, st, piece0, glue) ==
    LET piece == Strip(piece0) IN
    IF piece = <<>> THEN st
    ELSE IF st.current_chunk # <<>>
            /\ Len(st.current_chunk) + Len(piece) + 2 > cfg.chunk_size
         THEN [chunks |-> Append(st.chunks,
                            TextChunk(Strip(st.current_chunk), st.current_start,
                                      st.current_start + Len(st.current_chunk))),
               current_start |-> st.current_start + Len(st.current_chunk) + 2,
               current_chunk |-> piece]
    ELSE IF st.current_chunk # <<>>
         THEN [st EXCEPT !.current_chunk = st.current_chunk \o glue \o piece]
    ELSE [st EXCEPT !.current_chunk = piece]

RECURSIVE AccumulateLoop(_, _, _, _)
AccumulateLoop(cfg, st, pieces, glue) ==
    IF pieces = <<>> THEN st
    ELSE AccumulateLoop(cfg, AccumulateStep(cfg, st, Head(pieces), glue), Tail(pieces), glue)

\* the "Add the last chunk" tail of both strategies
AccumulateAll(cfg, pieces, glue) ==
    LET st == AccumulateLoop(cfg,
                  [chunks |-> <<>>, current_chunk |-> <<>>, current_start |-> 0],
                  pieces, glue)
    IN  IF st.current_chunk # <<>>
        THEN Append(st.chunks,
                 TextChunk(Strip(st.current_chunk), st.current_start,
                           st.current_start + Len(st.current_chunk)))
        ELSE st.chunks

\* TextChunker._chunk_by_paragraphs
ChunkByParagraphs(cfg, text) ==
    AccumulateAll(cfg, SplitBlankLine(text, <<>>), <<"\n", "\n">>)

\* TextChunker._chunk_by_sentences
ChunkBySentences(cfg, text) ==
    AccumulateAll(cfg, SplitSentences(text, <<>>), <<".", " ">>)

\* the end of one window of width `width` starting at `start`: the word-boundary
\* back-off shared by _chunk_by_characters and _split_oversized_chunk
WindowEnd(cfg, text, start, width) ==
    LET end == Min(start + width, Len(text))
        last_space == RFindSpace(text, start, end)
    IN  IF end < Len(text) /\ last_space > start + cfg.min_chunk_size
        THEN last_space
        ELSE end

\* TextChunker._chunk_by_characters: the while loop from `start` on
RECURSIVE ChunkByCharactersFrom(_, _, _)
ChunkByCharactersFrom(cfg, text, start) ==
    IF ~(start < Len(text)) THEN <<>>
    ELSE LET end == WindowEnd(cfg, text, start, cfg.chunk_size)
             chunk_text == Strip(Slice(text, start, end))
             next == Max(start + cfg.chunk_size - cfg.chunk_overlap, end)
         IN  (IF chunk_text # <<>> THEN <<TextChunk(chunk_text, start, end)>> ELSE <<>>)
             \o ChunkByCharactersFrom(cfg, text, next)

ChunkByCharacters(cfg, text) == ChunkByCharactersFrom(cfg, text, 0)

\* TextChunker._split_oversized_chunk: the while loop from `start` on
RECURSIVE SplitOversizedFrom(_, _, _)
SplitOversizedFrom(cfg, chunk, start) ==
    IF ~(start < Len(chunk.content)) THEN <<>>
    ELSE LET end == WindowEnd(cfg, chunk.content, start, cfg.max_chunk_size)
             chunk_text == Strip(Slice(chunk.content, start, end))
         IN  (IF chunk_text # <<>>
              THEN <<TextChunk(chunk_text, chunk.start_char + start, chunk.start_char + end)>>
              ELSE <<>>)
             \o SplitOversizedFrom(cfg, chunk, end)

SplitOversizedChunk(cfg, chunk) == SplitOversizedFrom(cfg, chunk, 0)

\* TextChunker._filter_chunks_by_size
RECURSIVE FilterChunksBySize(_, _)
FilterChunksBySize(cfg, chunks) ==
    IF chunks = <<>> THEN <<>>
    ELSE LET chunk == Head(chunks)
             kept == IF cfg.min_chunk_size <= Len(chunk.content)
                        /\ Len(chunk.content) <= cfg.max_chunk_size
                     THEN <<chunk>>
                     ELSE IF Len(chunk.content) > cfg.max_chunk_size
                     THEN SplitOversizedChunk(cfg, chunk)
                     ELSE <<>>
         IN  kept \o FilterChunksBySize(cfg, Tail(chunks))

\* the strategy cascade of chunk_text
CascadeChunks(cfg, cleaned_text) ==
    LET byPara == IF cfg.preserve_paragraphs
                  THEN ChunkByParagraphs(cfg, cleaned_text) ELSE <<>>
        bySent == IF byPara = <<>> /\ cfg.preserve_sentences
                  THEN ChunkBySentences(cfg, cleaned_text) ELSE byPara
    IN  IF bySent = <<>> THEN ChunkByCharacters(cfg, cleaned_text) ELSE bySent

\* chunk_text numbering the chunks before the size filter
ChunkTextResult_IndexBeforeFilter(cfg, text) ==
    IF text = <<>> \/ Strip(text) = <<>> THEN <<>>
    ELSE LET chunks == CascadeChunks(cfg, CleanText(text))
         IN  FilterChunksBySize(cfg,
                [i \in 1..Len(chunks) |-> [chunks[i] EXCEPT !.chunk_index = i - 1]])

\* TextChunker.chunk_text
ChunkTextResult(cfg, text) ==
    IF text = <<>> \/ Strip(text) = <<>> THEN <<>>
    ELSE LET filtered_chunks == FilterChunksBySize(cfg, CascadeChunks(cfg, CleanText(text)))
         IN  [i \in 1..Len(filtered_chunks) |->
                 [filtered_chunks[i] EXCEPT !.chunk_index = i - 1]]

(***************************************************************************)
(* Inputs of the chunking specification                                    *)
(***************************************************************************)
RECURSIVE SeqsUpTo(_, _)
SeqsUpTo(S, n) ==
    IF n = 0 THEN {<<>>}
    ELSE LET shorter == SeqsUpTo(S, n - 1)
         IN  shorter \cup {Append(s, c) : s \in {t \in shorter : Len(t) = n - 1}, c \in S}

Texts == SeqsUpTo(Alphabet, MaxLen)

\* sizes the configuration fields are drawn from
Sizes == 1..3
Overlaps == 0..3

\* TextChunker.__init__ with 1 <= min_chunk_size <= max_chunk_size
Configs ==
    {c \in [chunk_size : Sizes, chunk_overlap : Overlaps,
            min_chunk_size : Sizes, max_chunk_size : Sizes,
            preserve_paragraphs : BOOLEAN, preserve_sentences : BOOLEAN] :
        /\ c.min_chunk_size <= c.max_chunk_size
        /\ (c.preserve_paragraphs => c.preserve_sentences)}

InitChunk ==
    /\ ck_text \in Texts
    /\ ck_cfg \in Configs
    /\ ck_pc = "call"
    /\ ck_out = <<>>
    /\ PdIdle
    /\ CwIdle
    /\ EgIdle
    /\ InIdle
    /\ SrIdle

\* one call TextChunker(**ck_cfg).chunk_text(ck_text)
ChunkText ==
    /\ ck_pc = "call"
    /\ ck_pc' = "done"
    /\ ck_out' = ChunkTextResult(ck_cfg, ck_text)
    /\ UNCHANGED <<ck_text, ck_cfg, pdVars, cwVars, egVars, inVars, srVars>>

NextChunk == ChunkText

SpecChunk == InitChunk /\ [][NextChunk]_vars

(***************************************************************************)
(* Two-paragraph texts: a short paragraph, a blank line, and a second      *)
(* paragraph longer than chunk_size = 10, chunked with min_chunk_size = 1  *)
(***************************************************************************)
\* longest second paragraph
MaxParagraph == 12

FirstParagraphs == {<<"a">>, <<"a", ".">>}
\* paragraphs of more than chunk_size characters, words of "a" separated by spaces
SecondParagraphs ==
    {p \in SeqsUpTo({"a", " "}, MaxParagraph) : Len(p) > 10 /\ Strip(p) = p}
TwoParagraphTexts ==
    {p1 \o <<"\n", "\n">> \o p2 : p1 \in FirstParagraphs, p2 \in SecondParagraphs}

\* TextChunker(chunk_size=10, min_chunk_size=1, ...), the other fields at their
\* defaults or at small values
ParagraphConfigs ==
    [chunk_size : {10}, chunk_overlap : {0, 2, 200}, min_chunk_size : {1},
     max_chunk_size : {10, 2000}, preserve_paragraphs : {TRUE},
     preserve_sentences : {TRUE}]

InitParagraphs ==
    /\ ck_text \in TwoParagraphTexts
    /\ ck_cfg \in ParagraphConfigs
    /\ ck_pc = "call"
    /\ ck_out = <<>>
    /\ PdIdle
    /\ CwIdle
    /\ EgIdle
    /\ InIdle
    /\ SrIdle

SpecParagraphs == InitParagraphs /\ [][NextChunk]_vars

(***************************************************************************)
(* DocumentProcessor.process_document                                      *)
(*                                                                         *)
(* A file is named by the text its reader yields (the extractor's local    *)
(* text before the final strip), or is Unreadable when reading it raises.  *)
(* Of DocumentMetadata only mime_type is kept.                             *)
(***************************************************************************)
\* get_supported_mime_types
SupportedMimeTypes ==
    {"application/pdf",
     "application/vnd.openxmlformats-officedocument.wordprocessingml.document",
     "text/markdown",
     "text/plain"}

\* the mime types a caller passes
MimeTypes == SupportedMimeTypes \cup {"image/png", "text/html"}

\* a file whose reader raises
Unreadable == <<"unreadable">>
Files == Texts \cup {Unreadable}

\* the configurations of the processor's own TextChunker
ProcessorConfigs ==
    {c \in Configs : /\ c.chunk_size = 2 /\ c.chunk_overlap = 1
                     /\ c.min_chunk_size = 1 /\ c.max_chunk_size = 3}

\* a dispatch that reads every other type as plain text
ExtractorFor_DefaultText(mime_type) ==
    IF mime_type = "application/pdf" THEN "_extract_pdf_text"
    ELSE IF mime_type = "application/vnd.openxmlformats-officedocument.wordprocessingml.document"
         THEN "_extract_docx_text"
    ELSE IF mime_type = "text/markdown" THEN "_extract_markdown_text"
    ELSE "_extract_text_file"

\* the if/elif chain of process_document: the extractor called, "none" for the else branch
ExtractorFor(mime_type) ==
    IF mime_type = "application/pdf" THEN "_extract_pdf_text"
    ELSE IF mime_type = "application/vnd.openxmlformats-officedocument.wordprocessingml.document"
         THEN "_extract_docx_text"
    ELSE IF mime_type = "text/markdown" THEN "_extract_markdown_text"
    ELSE IF mime_type = "text/plain" THEN "_extract_text_file"
    ELSE "none"

\* what process_document ends with
Returned(text, doc_metadata, chunks) ==
    [raised |-> "none", text |-> text, metadata |-> doc_metadata, chunks |-> chunks]
Raised(error) == [raised |-> error]

InitProcess ==
    /\ pd_req \in [mime_type : MimeTypes, file : Files]
    /\ pd_pc = "call" /\ pd_calls = <<>> /\ pd_ret = <<>>
    /\ ck_cfg \in ProcessorConfigs
    /\ ck_text = <<>> /\ ck_pc = "idle" /\ ck_out = <<>>
    /\ CwIdle
    /\ EgIdle /\ InIdle /\ SrIdle

\* process_document extracts the text, chunks it and returns
ProcessorProcessDocument ==
    /\ pd_pc = "call"
    /\ ExtractorFor(pd_req.mime_type) # "none"
    /\ pd_req.file # Unreadable
    /\ LET text == Strip(pd_req.file)
           chunks == ChunkTextResult(ck_cfg, text)
       IN  /\ ck_text' = text
           /\ ck_out' = chunks
           /\ pd_ret' = Returned(text, [mime_type |-> pd_req.mime_type], chunks)
    /\ ck_pc' = "done"
    /\ pd_calls' = <<ExtractorFor(pd_req.mime_type), "chunk_text">>
    /\ pd_pc' = "returned"
    /\ UNCHANGED <<pd_req, ck_cfg, cwVars, egVars, inVars, srVars>>

\* process_document raises: the else branch's ValueError, or the extractor's
\* own error, which it logs and raises again
ProcessorProcessDocumentRaises ==
    /\ pd_pc = "call"
    /\ \/ /\ ExtractorFor(pd_req.mime_type) = "none"
          /\ pd_calls' = <<>>
          /\ pd_ret' = Raised("ValueError")
       \/ /\ ExtractorFor(pd_req.mime_type) # "none"
          /\ pd_req.file = Unreadable
          /\ pd_calls' = <<ExtractorFor(pd_req.mime_type)>>
          /\ pd_ret' = Raised("Exception")
    /\ pd_pc' = "raised"
    /\ UNCHANGED <<pd_req, ck_text, ck_cfg, ck_pc, ck_out, cwVars, egVars, inVars, srVars>>

NextProcess ==
    \/ ProcessorProcessDocument
    \/ ProcessorProcessDocumentRaises

SpecProcess == InitProcess /\ [][NextProcess]_vars

(***************************************************************************)
(* The window loops of _chunk_by_characters and _split_oversized_chunk,    *)
(* one iteration per step                                                  *)
(*                                                                         *)
(* ck_text is the cleaned text chunk_text hands to _chunk_by_characters;   *)
(* _split_oversized_chunk gets one of the chunks that method made of it.   *)
(***************************************************************************)
\* longest cleaned text the window loops are run on
MaxWindowText == 6

\* cleaned texts: words of "a" separated by single spaces
WindowTexts ==
    {t \in SeqsUpTo({"a", " "}, MaxWindowText) : t # <<>> /\ CleanText(t) = t}

\* TextChunker.__init__ checks none of its arguments
WindowConfigs ==
    [chunk_size : 1..4, chunk_overlap : 0..4, min_chunk_size : 0..2, max_chunk_size : 1..4,
     preserve_paragraphs : {FALSE}, preserve_sentences : {FALSE}]

\* the chunks _filter_chunks_by_size hands to _split_oversized_chunk
OversizedChunks(cfg, text) ==
    LET chunks == ChunkByCharacters(cfg, text)
    IN  {chunks[i] : i \in {j \in DOMAIN chunks :
                               Len(chunks[j].content) > cfg.max_chunk_size}}

InitWindow ==
    /\ ck_text \in WindowTexts
    /\ ck_cfg \in WindowConfigs
    /\ \/ cw_in = [fn |-> "_chunk_by_characters", text |-> ck_text, start_char |-> 0]
       \/ \E chunk \in OversizedChunks(ck_cfg, ck_text) :
             cw_in = [fn |-> "_split_oversized_chunk", text |-> chunk.content,
                      start_char |-> chunk.start_char]
    /\ cw_pc = "loop" /\ cw_start = 0 /\ cw_chunks = <<>> /\ cw_hist = <<>>
    /\ ck_pc = "idle" /\ ck_out = <<>>
    /\ PdIdle /\ EgIdle /\ InIdle /\ SrIdle

\* what one iteration did: its start, min(start + width, len), what rfind gave, its end
Iteration(text, start, width, end) ==
    [start |-> start,
     limit |-> Min(start + width, Len(text)),
     last_space |-> RFindSpace(text, start, Min(start + width, Len(text))),
     end |-> end]

\* an advance that ignores where the window ended
CharactersAdvance_OverlapOnly(cfg, start, end) ==
    start + cfg.chunk_size - cfg.chunk_overlap

\* start = max(start + self.chunk_size - self.chunk_overlap, end)
CharactersAdvance(cfg, start, end) ==
    Max(start + cfg.chunk_size - cfg.chunk_overlap, end)

\* one iteration of the while loop of _chunk_by_characters
ChunkByCharactersStep ==
    /\ cw_pc = "loop" /\ cw_in.fn = "_chunk_by_characters"
    /\ cw_start < Len(cw_in.text)
    /\ LET end == WindowEnd(ck_cfg, cw_in.text, cw_start, ck_cfg.chunk_size)
           chunk_text == Strip(Slice(cw_in.text, cw_start, end))
       IN  /\ cw_chunks' = IF chunk_text # <<>>
                           THEN Append(cw_chunks, TextChunk(chunk_text, cw_start, end))
                           ELSE cw_chunks
           /\ cw_start' = CharactersAdvance(ck_cfg, cw_start, end)
           /\ cw_hist' = Append(cw_hist,
                                Iteration(cw_in.text, cw_start, ck_cfg.chunk_size, end))
    /\ UNCHANGED <<cw_pc, cw_in, ck_text, ck_cfg, ck_pc, ck_out, pdVars,
                   egVars, inVars, srVars>>

\* one iteration of the while loop of _split_oversized_chunk
SplitOversizedStep ==
    /\ cw_pc = "loop" /\ cw_in.fn = "_split_oversized_chunk"
    /\ cw_start < Len(cw_in.text)
    /\ LET end == WindowEnd(ck_cfg, cw_in.text, cw_start, ck_cfg.max_chunk_size)
           chunk_text == Strip(Slice(cw_in.text, cw_start, end))
       IN  /\ cw_chunks' = IF chunk_text # <<>>
                           THEN Append(cw_chunks,
                                       TextChunk(chunk_text, cw_in.start_char + cw_start,
                                                 cw_in.start_char + end))
                           ELSE cw_chunks
           /\ cw_start' = end
           /\ cw_hist' = Append(cw_hist,
                                Iteration(cw_in.text, cw_start, ck_cfg.max_chunk_size, end))
    /\ UNCHANGED <<cw_pc, cw_in, ck_text, ck_cfg, ck_pc, ck_out, pdVars,
                   egVars, inVars, srVars>>

\* the loop condition fails: return chunks
WindowLoopReturn ==
    /\ cw_pc = "loop"
    /\ ~(cw_start < Len(cw_in.text))
    /\ cw_pc' = "done"
    /\ UNCHANGED <<cw_in, cw_start, cw_chunks, cw_hist, ck_text, ck_cfg, ck_pc, ck_out,
                   pdVars, egVars, inVars, srVars>>

NextWindow ==
    \/ ChunkByCharactersStep
    \/ SplitOversizedStep
    \/ WindowLoopReturn

SpecWindow == InitWindow /\ [][NextWindow]_vars

\* a method that is called runs to its return
SpecWindowFair == SpecWindow /\ WF_vars(NextWindow)

(***************************************************************************)
(* EmbeddingGenerator                                                      *)
(*                                                                         *)
(* The input list is texts = <<1, ..., n>>: a text is named by its index.  *)
(* A vector is named by where it came from, the text it embeds and its     *)
(* length.                                                                 *)
(***************************************************************************)
\* Settings.embedding_dimensions
EmbeddingDimensions == 1536
\* the dimensionality of SentenceTransformer('all-MiniLM-L6-v2')
LocalDimensions == 384
\* dimensionalities of the provider models a call may name
ModelDimensions == {1536, 768}
\* batch_size = batch_size or 100
DefaultBatchSize == 100

\* Python's None
None == "<None>"
\* the truth value Python gives a str-or-None
Truthy(x) == x # None /\ x # ""

ProviderVector(text, dim) == [src |-> "provider", text |-> text, dim |-> dim]
LocalVector(text) == [src |-> "local", text |-> text, dim |-> LocalDimensions]
\* [0.0] * self.settings.embedding_dimensions
ZeroVector == [src |-> "zero", text |-> 0, dim |-> EmbeddingDimensions]
\* embedding=[] of an error EmbeddingResponse
EmptyVector == [src |-> "empty", text |-> 0, dim |-> 0]
\* None where a vector is expected
NoValue == [src |-> "none", text |-> 0, dim |-> 0]

\* str(e) of the errors a provider call may end with; a timeout carries no message
ErrorMessages == {"rate limited", ""}

\* AIProviderManager.generate_embedding with no such provider registered
NotAvailable ==
    [kind |-> "response", embedding |-> EmptyVector,
     error |-> "Provider not available", usage |-> "none"]

\* a task of the batch that has not ended yet
Pending == [kind |-> "pending", embedding |-> EmptyVector, error |-> None, usage |-> "none"]

\* an entry of the history: a task's state o, and how many tasks of the call
\* had ended before it did (-1 while it has not ended)
LogEntry(o, seq) ==
    [kind |-> o.kind, embedding |-> o.embedding, error |-> o.error,
     usage |-> o.usage, seq |-> seq]
\* the entry of a text no task was created for
Unissued ==
    [kind |-> "unissued", embedding |-> EmptyVector, error |-> None,
     usage |-> "none", seq |-> -1]
\* the texts whose task has ended
Ended == {t \in DOMAIN eg_log : eg_log[t].seq >= 0}

\* what one task of the batch can end with: an EmbeddingResponse carrying a
\* vector (usage absent, a dict, or some other JSON value), an EmbeddingResponse
\* carrying an error, or a raised exception
TaskOutcomes(text, dim) ==
    {[kind |-> "response", embedding |-> ProviderVector(text, dim),
      error |-> None, usage |-> u] : u \in {"none", "dict", "other"}}
    \cup {[kind |-> "response", embedding |-> EmptyVector, error |-> m, usage |-> "none"] :
            m \in ErrorMessages}
    \cup {[kind |-> "exception", embedding |-> EmptyVector, error |-> m, usage |-> "none"] :
            m \in ErrorMessages}

\* _generate_batch_embeddings, "Handle exceptions": gather's results as responses
AsResponse(result) ==
    IF result.kind = "exception"
    THEN [kind |-> "response", embedding |-> EmptyVector,
          error |-> result.error, usage |-> "none"]
    ELSE result

\* the slot appended for one response
CollectedEmbedding(r) == IF Truthy(r.error) THEN ZeroVector ELSE r.embedding

\* the entry appended to errors for one response, if any
CollectedErrors(r, index) ==
    IF Truthy(r.error) THEN <<[tag |-> "Text", index |-> index, msg |-> r.error]>> ELSE <<>>

\* usage.get('total_tokens', 0) of a response that is counted
CollectedTokens(r) == IF ~Truthy(r.error) /\ r.usage = "dict" THEN 1 ELSE 0

\* embedding_result.usage.get(...) on a usage that is no mapping raises AttributeError
CollectRaises(r) == ~Truthy(r.error) /\ r.usage = "other"

\* _generate_with_provider, "Collect results": the loop over zip(batch, batch_embeddings)
RECURSIVE CollectResults(_, _, _, _)
CollectResults(acc, responses, i, j) ==
    IF j > Len(responses) THEN acc
    ELSE CollectResults(
            [embeddings |-> Append(acc.embeddings, CollectedEmbedding(responses[j])),
             total_tokens |-> acc.total_tokens + CollectedTokens(responses[j]),
             errors |-> acc.errors \o CollectedErrors(responses[j], i + (j - 1))],
            responses, i, j + 1)

EmptyLocals == [embeddings |-> <<>>, total_tokens |-> 0, errors |-> <<>>]

\* texts[i:i + batch_size] as the indices of its texts
Batch(n, i, batch_size) == [j \in 1..(Min(i + batch_size, n) - i) |-> i + j]

EgInputs ==
    [n : 0..MaxTexts, batch_size : 1..MaxBatch, registered : BOOLEAN,
     local_model : BOOLEAN, dim : ModelDimensions]

EgStart(in) ==
    /\ eg_pc = "start" /\ eg_in = in /\ eg_i = 0
    /\ eg_tasks = <<>> /\ eg_prov = EmptyLocals /\ eg_out = EmptyLocals
    /\ eg_log = [t \in 1..in.n |-> Unissued]
    /\ eg_ret = NoValue

InitEmbed ==
    /\ \E in \in EgInputs : EgStart(in)
    /\ CkIdle
    /\ InIdle
    /\ SrIdle

\* generate_embeddings up to the call of _generate_with_provider
GenerateEmbeddings ==
    /\ eg_pc = "start"
    /\ eg_pc' = IF eg_in.n = 0 THEN "done" ELSE "batch"
    /\ UNCHANGED <<eg_ret, eg_in, eg_i, eg_tasks, eg_prov, eg_out, eg_log, ckVars, inVars, srVars>>

\* _generate_batch_embeddings: one task per text of the batch, then gather
IssueBatch ==
    /\ eg_pc = "batch"
    /\ eg_i < eg_in.n
    /\ eg_tasks' = [j \in DOMAIN Batch(eg_in.n, eg_i, eg_in.batch_size) |-> Pending]
    /\ eg_log' = [t \in DOMAIN eg_log |->
                    IF \E j \in DOMAIN Batch(eg_in.n, eg_i, eg_in.batch_size) : t = eg_i + j
                    THEN LogEntry(Pending, -1) ELSE eg_log[t]]
    /\ eg_pc' = "gather"
    /\ UNCHANGED <<eg_ret, eg_in, eg_i, eg_prov, eg_out, ckVars, inVars, srVars>>

\* one task of the batch ends, in any order
CompleteTask ==
    /\ eg_pc = "gather"
    /\ \E j \in DOMAIN eg_tasks :
        /\ eg_tasks[j] = Pending
        /\ \E o \in (IF eg_in.registered
                     THEN TaskOutcomes(eg_i + j, eg_in.dim)
                     ELSE {NotAvailable}) :
              /\ eg_tasks' = [eg_tasks EXCEPT ![j] = o]
              /\ eg_log' = [eg_log EXCEPT ![eg_i + j] = LogEntry(o, Cardinality(Ended))]
    /\ UNCHANGED <<eg_ret, eg_pc, eg_in, eg_i, eg_prov, eg_out, ckVars, inVars, srVars>>

\* waiting for the first task only
AllTasksDone_Any == \E j \in DOMAIN eg_tasks : eg_tasks[j] # Pending

\* await asyncio.gather(*tasks, return_exceptions=True) can return
AllTasksDone == \A j \in DOMAIN eg_tasks : eg_tasks[j] # Pending

\* the batch's results in the order the tasks ended
BatchResponses_ByCompletion ==
    [k \in DOMAIN eg_tasks |->
        AsResponse(eg_tasks[CHOOSE j \in DOMAIN eg_tasks :
            Cardinality({m \in DOMAIN eg_tasks :
                eg_log[eg_i + m].seq < eg_log[eg_i + j].seq}) = k - 1])]

\* gather's results, in the order of the tasks
BatchResponses == [j \in DOMAIN eg_tasks |-> AsResponse(eg_tasks[j])]

\* gather returns and the batch's results are collected
CollectBatch ==
    /\ eg_pc = "gather"
    /\ AllTasksDone
    /\ \A j \in DOMAIN eg_tasks : ~CollectRaises(BatchResponses[j])
    /\ eg_prov' = CollectResults(eg_prov, BatchResponses, eg_i, 1)
    /\ eg_i' = eg_i + eg_in.batch_size
    /\ eg_tasks' = <<>>
    /\ eg_pc' = "batch"
    /\ UNCHANGED <<eg_ret, eg_in, eg_out, eg_log, ckVars, inVars, srVars>>

\* collecting raises: generate_embeddings' except clause keeps its own empty
\* embeddings and records the failure
ProviderRaises ==
    /\ eg_pc = "gather"
    /\ AllTasksDone
    /\ \E j \in DOMAIN eg_tasks : CollectRaises(BatchResponses[j])
    /\ eg_out' = [embeddings |-> <<>>, total_tokens |-> 0,
                  errors |-> <<[tag |-> "Provider embedding failed", index |-> -1,
                                msg |-> "AttributeError"]>>]
    /\ eg_tasks' = <<>>
    /\ eg_pc' = "fallback"
    /\ UNCHANGED <<eg_ret, eg_in, eg_i, eg_prov, eg_log, ckVars, inVars, srVars>>

\* _generate_with_provider returns after the last batch
ProviderReturns ==
    /\ eg_pc = "batch"
    /\ ~(eg_i < eg_in.n)
    /\ eg_out' = eg_prov
    /\ eg_pc' = "fallback"
    /\ UNCHANGED <<eg_ret, eg_in, eg_i, eg_tasks, eg_prov, eg_log, ckVars, inVars, srVars>>

\* if not embeddings and self.local_model
FallbackTaken == eg_out.embeddings = <<>> /\ eg_in.local_model

\* _generate_local_embeddings encodes every text
LocalFallback ==
    /\ eg_pc = "fallback"
    /\ FallbackTaken
    /\ eg_out' = [eg_out EXCEPT !.embeddings = [t \in 1..eg_in.n |-> LocalVector(t)]]
    /\ eg_pc' = "done"
    /\ UNCHANGED <<eg_ret, eg_in, eg_i, eg_tasks, eg_prov, eg_log, ckVars, inVars, srVars>>

\* _generate_local_embeddings raises
LocalFallbackRaises ==
    /\ eg_pc = "fallback"
    /\ FallbackTaken
    /\ eg_out' = [eg_out EXCEPT !.errors =
                    Append(@, [tag |-> "Local embedding failed", index |-> -1,
                               msg |-> "RuntimeError"])]
    /\ eg_pc' = "done"
    /\ UNCHANGED <<eg_ret, eg_in, eg_i, eg_tasks, eg_prov, eg_log, ckVars, inVars, srVars>>

\* no fallback: the EmbeddingResult is built from the provider path's values
ReturnResult ==
    /\ eg_pc = "fallback"
    /\ ~FallbackTaken
    /\ eg_pc' = "done"
    /\ UNCHANGED <<eg_ret, eg_in, eg_i, eg_tasks, eg_prov, eg_out, eg_log, ckVars, inVars, srVars>>

\* returning the first embedding whatever errors says
SingleEmbedding_IgnoreErrors(result) ==
    IF result.embeddings # <<>> THEN result.embeddings[1] ELSE NoValue

\* generate_single_embedding: the value returned for the result of
\* generate_embeddings(texts=[text])
SingleEmbedding(result) ==
    IF result.embeddings # <<>> /\ result.errors = <<>>
    THEN result.embeddings[1] ELSE NoValue

\* generate_single_embedding(text) returns; its call of generate_embeddings
\* is the run with one text
GenerateSingleEmbedding ==
    /\ eg_pc = "done"
    /\ eg_in.n = 1
    /\ eg_ret' = SingleEmbedding(eg_out)
    /\ eg_pc' = "returned"
    /\ UNCHANGED <<eg_in, eg_i, eg_tasks, eg_prov, eg_out, eg_log, ckVars, inVars, srVars>>

NextEmbed ==
    \/ GenerateEmbeddings
    \/ IssueBatch
    \/ CompleteTask
    \/ CollectBatch
    \/ ProviderRaises
    \/ ProviderReturns
    \/ LocalFallback
    \/ LocalFallbackRaises
    \/ ReturnResult
    \/ GenerateSingleEmbedding

\* EmbeddingGenerator.get_embedding_dimensions for the call's provider and model:
\* the model's configured dimensions, the setting when the provider is not registered
GetEmbeddingDimensions(in) == IF in.registered THEN in.dim ELSE EmbeddingDimensions

SpecEmbed == InitEmbed /\ [][NextEmbed]_vars

(***************************************************************************)
(* process_document_background                                             *)
(*                                                                         *)
(* One background run for one document whose text yields eg_in.n chunks;   *)
(* chunk k (0-based) has content texts[k + 1].                             *)
(***************************************************************************)
\* DocumentChunk.embedding: Vector(1536)
ColumnDimensions == 1536

\* the environments a background run can find
IngestInputs == {in \in EgInputs : in.batch_size = 1}

InitIngest ==
    /\ \E in \in IngestInputs :
          /\ eg_in = [in EXCEPT !.batch_size = DefaultBatchSize]
          /\ eg_log = [t \in 1..in.n |-> Unissued]
    /\ eg_pc = "idle" /\ eg_i = 0 /\ eg_tasks = <<>>
    /\ eg_prov = EmptyLocals /\ eg_out = EmptyLocals /\ eg_ret = NoValue
    /\ in_pc = "process" /\ in_k = 0 /\ db_chunks = <<>> /\ db_processed = FALSE
    /\ RunIdle
    /\ CkIdle
    /\ SrIdle

\* processor.process_document returns the chunks; generate_embeddings(chunk_texts) is called
ProcessDocument ==
    /\ in_pc = "process"
    /\ in_pc' = "embed"
    /\ eg_pc' = "start"
    /\ UNCHANGED <<eg_ret, eg_in, eg_i, eg_tasks, eg_prov, eg_out, eg_log,
                   in_k, db_chunks, db_processed, runVars, ckVars, srVars>>

\* processor.process_document raises (unsupported type, unreadable file)
ProcessDocumentRaises ==
    /\ in_pc = "process"
    /\ in_pc' = "failed"
    /\ UNCHANGED <<egVars, in_k, db_chunks, db_processed, runVars, ckVars, srVars>>

\* the length of zip(chunks, embedding_result.embeddings)
ZipLen == Min(eg_in.n, Len(eg_out.embeddings))

\* one iteration of the zip loop: chunk_repo.create adds the row and commits
SaveChunk ==
    /\ in_pc = "embed" /\ eg_pc = "done"
    /\ in_k < ZipLen
    /\ eg_out.embeddings[in_k + 1].dim = ColumnDimensions
    /\ db_chunks' = Append(db_chunks,
            [chunk_index |-> in_k, content |-> in_k + 1,
             embedding |-> eg_out.embeddings[in_k + 1]])
    /\ in_k' = in_k + 1
    /\ UNCHANGED <<egVars, in_pc, db_processed, runVars, ckVars, srVars>>

\* chunk_repo.create raises (the vector does not fit the column, or the store
\* fails); the except clause ends the run
SaveChunkRaises ==
    /\ in_pc = "embed" /\ eg_pc = "done"
    /\ in_k < ZipLen
    /\ in_pc' = "failed"
    /\ UNCHANGED <<egVars, in_k, db_chunks, db_processed, runVars, ckVars, srVars>>

\* document_repo.mark_processed after the loop
MarkProcessed ==
    /\ in_pc = "embed" /\ eg_pc = "done"
    /\ ~(in_k < ZipLen)
    /\ db_processed' = TRUE
    /\ in_pc' = "done"
    /\ UNCHANGED <<egVars, in_k, db_chunks, runVars, ckVars, srVars>>

NextIngest ==
    \/ ProcessDocument
    \/ ProcessDocumentRaises
    \/ GenerateEmbeddings
    \/ IssueBatch
    \/ CompleteTask
    \/ CollectBatch
    \/ ProviderRaises
    \/ ProviderReturns
    \/ LocalFallback
    \/ LocalFallbackRaises
    \/ ReturnResult
    \/ SaveChunk
    \/ SaveChunkRaises
    \/ MarkProcessed

SpecIngest == InitIngest /\ [][NextIngest]_vars

(***************************************************************************)
(* One document under upload_document, POST /documents/process and the     *)
(* process_document_background tasks they schedule                         *)
(*                                                                         *)
(* Tasks are named 1..MaxRuns in the order they are scheduled.  A task's   *)
(* awaits are the points where other requests and tasks run: after         *)
(* generate_embeddings and after each chunk_repo.create, which commits.    *)
(***************************************************************************)
\* most background tasks scheduled for the document
MaxRuns == 2

Runs == 1..MaxRuns

\* the next task BackgroundTasks.add_task creates, 0 when the bound is reached
NextRun ==
    IF \E r \in Runs : bg_pc[r] = "unscheduled"
    THEN CHOOSE r \in Runs :
            /\ bg_pc[r] = "unscheduled"
            /\ \A q \in Runs : bg_pc[q] = "unscheduled" => r <= q
    ELSE 0

\* the row chunk_repo.create adds for chunk k of the document
ChunkRow(k) ==
    [chunk_index |-> k, content |-> k + 1,
     embedding |-> ProviderVector(k + 1, ColumnDimensions)]

InitRuns ==
    /\ \E n \in 1..MaxTexts : up_doc = [exists |-> FALSE, n |-> n]
    /\ bg_pc = [r \in Runs |-> "unscheduled"]
    /\ bg_k = [r \in Runs |-> 0]
    /\ rq_status = "none"
    /\ in_pc = "idle" /\ in_k = 0 /\ db_chunks = <<>> /\ db_processed = FALSE
    /\ CkIdle /\ EgIdle /\ SrIdle

\* upload_document: the document row is created unprocessed and a task is scheduled
UploadDocument ==
    /\ ~up_doc.exists
    /\ up_doc' = [up_doc EXCEPT !.exists = TRUE]
    /\ bg_pc' = [bg_pc EXCEPT ![NextRun] = "scheduled"]
    /\ UNCHANGED <<bg_k, rq_status, in_pc, in_k, db_chunks, db_processed,
                   ckVars, egVars, srVars>>

\* POST /documents/process for the document: "already_processed", or a new task
ProcessDocumentRequest ==
    /\ up_doc.exists
    /\ IF db_processed
       THEN /\ rq_status' = "already_processed"
            /\ UNCHANGED bg_pc
       ELSE /\ NextRun # 0
            /\ rq_status' = "processing"
            /\ bg_pc' = [bg_pc EXCEPT ![NextRun] = "scheduled"]
    /\ UNCHANGED <<up_doc, bg_k, in_pc, in_k, db_chunks, db_processed,
                   ckVars, egVars, srVars>>

\* a task extracts and chunks the file and awaits the embeddings
BackgroundStart(r) ==
    /\ bg_pc[r] = "scheduled"
    /\ bg_pc' = [bg_pc EXCEPT ![r] = "saving"]
    /\ UNCHANGED <<up_doc, bg_k, rq_status, in_pc, in_k, db_chunks, db_processed,
                   ckVars, egVars, srVars>>

\* process_document or generate_embeddings raises: the except clause prints and the task ends
BackgroundStartRaises(r) ==
    /\ bg_pc[r] = "scheduled"
    /\ bg_pc' = [bg_pc EXCEPT ![r] = "failed"]
    /\ UNCHANGED <<up_doc, bg_k, rq_status, in_pc, in_k, db_chunks, db_processed,
                   ckVars, egVars, srVars>>

\* one iteration of the task's zip loop: chunk_repo.create adds the row and commits
BackgroundSaveChunk(r) ==
    /\ bg_pc[r] = "saving"
    /\ bg_k[r] < up_doc.n
    /\ db_chunks' = Append(db_chunks, ChunkRow(bg_k[r]))
    /\ bg_k' = [bg_k EXCEPT ![r] = bg_k[r] + 1]
    /\ UNCHANGED <<up_doc, bg_pc, rq_status, in_pc, in_k, db_processed,
                   ckVars, egVars, srVars>>

\* chunk_repo.create raises: the rows committed before stay, the task ends
BackgroundSaveChunkRaises(r) ==
    /\ bg_pc[r] = "saving"
    /\ bg_k[r] < up_doc.n
    /\ bg_pc' = [bg_pc EXCEPT ![r] = "failed"]
    /\ UNCHANGED <<up_doc, bg_k, rq_status, in_pc, in_k, db_chunks, db_processed,
                   ckVars, egVars, srVars>>

\* document_repo.mark_processed after the loop
BackgroundMarkProcessed(r) ==
    /\ bg_pc[r] = "saving"
    /\ ~(bg_k[r] < up_doc.n)
    /\ db_processed' = TRUE
    /\ bg_pc' = [bg_pc EXCEPT ![r] = "done"]
    /\ UNCHANGED <<up_doc, bg_k, rq_status, in_pc, in_k, db_chunks,
                   ckVars, egVars, srVars>>

NextRuns ==
    \/ UploadDocument
    \/ ProcessDocumentRequest
    \/ \E r \in Runs : BackgroundStart(r)
    \/ \E r \in Runs : BackgroundStartRaises(r)
    \/ \E r \in Runs : BackgroundSaveChunk(r)
    \/ \E r \in Runs : BackgroundSaveChunkRaises(r)
    \/ \E r \in Runs : BackgroundMarkProcessed(r)

SpecRuns == InitRuns /\ [][NextRuns]_vars

(***************************************************************************)
(* VectorRetriever and HybridRetriever                                     *)
(*                                                                         *)
(* Embeddings are two-dimensional integer vectors.  A row of               *)
(* document_chunks is identified by its attributes (no two rows of the     *)
(* store agree on all of them); its content is described by its length and *)
(* by how often each keyword of the vocabulary occurs in it.               *)
(***************************************************************************)
\* most rows in the store
MaxRows == 3
\* largest limit argument
MaxLimit == 2

\* a NULL embedding column
Null == <<>>
\* the float NaN: no number, kept apart from every score
NaN == 0 - 1
IsNaN(x) == x = NaN

Dot(u, v) == u[1] * v[1] + u[2] * v[2]
\* the square root of a perfect square
ISqrt(n) == CHOOSE r \in 0..n : r * r = n
Norm(u) == ISqrt(Dot(u, u))

\* cosine distance, 1 - u.v / (|u| |v|), in hundredths; NaN for a zero vector
cosine_distance(u, v) ==
    IF Norm(u) = 0 \/ Norm(v) = 0 THEN NaN
    ELSE 100 - (100 * Dot(u, v)) \div (Norm(u) * Norm(v))

\* 1 - cosine_distance(chunk.embedding, query_embedding)
Similarity(u, v) ==
    IF IsNaN(cosine_distance(u, v)) THEN NaN ELSE 100 - cosine_distance(u, v)

\* the comparison turned round
FloatGeq_Flipped(a, b) == ~IsNaN(a) /\ ~IsNaN(b) /\ a <= b

\* Python's a >= b on floats: False when either is NaN
FloatGeq(a, b) == ~IsNaN(a) /\ ~IsNaN(b) /\ a >= b

\* ORDER BY key ASC in PostgreSQL: NaN sorts after every number
SortsBefore(a, b) == IsNaN(b) \/ (~IsNaN(a) /\ a <= b)

\* a * b of two fixed-point numbers in hundredths
Mul(a, b) == (a * b) \div 100

\* the embeddings stored rows carry, and those a query can get
StoredVectors == {<<5, 0>>, <<3, 4>>, <<0, 0>>}
QueryVectors == {<<5, 0>>}
\* the keywords queries are made of
Vocabulary == {"data", "text"}
KeywordLen(k) == 4
\* contents: len(content) and content.lower().count(keyword) per keyword
Contents ==
    {[len |-> 500, count |-> [k \in Vocabulary |-> 0]],
     [len |-> 500, count |-> [k \in Vocabulary |-> IF k = "data" THEN 1 ELSE 0]],
     [len |-> 1000, count |-> [k \in Vocabulary |-> 1]]}
Profiles == {1, 2}
\* the profile a request names; the rows are the same for both profiles, so the
\* requests of the other one are these with the two names exchanged
QueryProfiles == {1}
\* model DocumentChunk
Rows == [profile_id : Profiles, embedding : StoredVectors \cup {Null}, content : Contents]

\* the sequences that list every element of S once
Enumerations(S) ==
    {f \in [1..Cardinality(S) -> S] : \A i, j \in DOMAIN f : i # j => f[i] # f[j]}

\* seq[:n]
Take(seq, n) == SubSeq(seq, 1, Min(n, Len(seq)))

\* the same query without its ORDER BY
NearestAnswers_Unordered(rows, profile_id, query_embedding, k) ==
    {Take(f, k) : f \in Enumerations(
        {r \in rows : r.profile_id = profile_id /\ r.embedding # Null})}

\* the same query without "embedding IS NOT NULL": rows with no embedding sort last
NearestAnswers_WithNull(rows, profile_id, query_embedding, k) ==
    LET hit == {r \in rows : r.profile_id = profile_id}
        dist(r) == cosine_distance(r.embedding, query_embedding)
    IN  {Take(f, k) : f \in {g \in Enumerations(hit) :
            \A i, j \in DOMAIN g : i < j =>
                IF g[i].embedding = Null THEN g[j].embedding = Null
                ELSE g[j].embedding = Null \/ SortsBefore(dist(g[i]), dist(g[j]))}}

\* the answers the store may give to
\* SELECT ... WHERE profile_id = :p AND embedding IS NOT NULL
\* ORDER BY cosine_distance(embedding, :q) LIMIT :k
NearestAnswers(rows, profile_id, query_embedding, k) ==
    LET hit == {r \in rows : r.profile_id = profile_id /\ r.embedding # Null}
        dist(r) == cosine_distance(r.embedding, query_embedding)
    IN  {Take(f, k) : f \in {g \in Enumerations(hit) :
            \A i, j \in DOMAIN g : i < j => SortsBefore(dist(g[i]), dist(g[j]))}}

\* _perform_vector_search, "Calculate similarity scores and filter"
RECURSIVE FilterByThreshold(_, _, _, _)
FilterByThreshold(chunks, query_embedding, similarity_threshold, search_results) ==
    IF chunks = <<>> THEN search_results
    ELSE LET chunk == Head(chunks)
             similarity == Similarity(chunk.embedding, query_embedding)
             kept == IF chunk.embedding # <<>> /\ FloatGeq(similarity, similarity_threshold)
                     THEN <<[chunk |-> chunk, similarity_score |-> similarity,
                             rank |-> Len(search_results) + 1]>>
                     ELSE <<>>
         IN  FilterByThreshold(Tail(chunks), query_embedding, similarity_threshold,
                               search_results \o kept)

\* _perform_vector_search on the store's answer `chunks`
PerformVectorSearch(chunks, query_embedding, limit, similarity_threshold) ==
    Take(FilterByThreshold(chunks, query_embedding, similarity_threshold, <<>>), limit)

\* the store query of _perform_vector_search, as logged in sr_queries
VectorQuery(profile_id, limit) ==
    [kind |-> "nearest", profile_id |-> profile_id, limit |-> limit * 2]

\* search_similar_chunks given the query's embedding (None if it failed) and
\* the store's answer
SearchResponse(results, query_embedding) ==
    [results |-> results, total_results |-> Len(results),
     query_embedding |-> query_embedding, error |-> ""]
\* the same response without the explanation
FailedResponse_Unexplained ==
    [results |-> <<>>, total_results |-> 0, query_embedding |-> Null, error |-> ""]

\* search_similar_chunks when generate_single_embedding gave no vector
FailedResponse ==
    [results |-> <<>>, total_results |-> 0, query_embedding |-> Null,
     error |-> "Failed to generate query embedding"]

\* _calculate_keyword_score, in hundredths
CalculateKeywordScore(content, keywords) ==
    LET RECURSIVE Total(_)
        \* total_score * 10
        Total(ks) == IF ks = <<>> THEN 0
                     ELSE content.count[Head(ks)] * KeywordLen(Head(ks)) + Total(Tail(ks))
    IN  Min((Total(keywords) * 100 * 100) \div content.len, 100)

\* the same condition without the profile filter
KeywordMatches_AnyProfile(rows, profile_id, keywords) ==
    {r \in rows : \E i \in DOMAIN keywords : r.content.count[keywords[i]] > 0}

\* the rows matching WHERE profile_id = :p AND (content ILIKE %k1% OR ...)
KeywordMatches(rows, profile_id, keywords) ==
    {r \in rows : /\ r.profile_id = profile_id
                  /\ \E i \in DOMAIN keywords : r.content.count[keywords[i]] > 0}

\* the answers the store may give to that query with LIMIT :k and no ORDER BY
KeywordAnswers(rows, profile_id, keywords, k) ==
    {Take(f, k) : f \in Enumerations(KeywordMatches(rows, profile_id, keywords))}

\* _keyword_search on the store's answer `chunks`
KeywordSearch(chunks, keywords) ==
    [i \in DOMAIN chunks |->
        [chunk |-> chunks[i],
         similarity_score |-> CalculateKeywordScore(chunks[i].content, keywords),
         rank |-> 0]]

\* the position of the result for `chunk` in `results`, 0 if there is none
IndexOf(results, chunk) ==
    IF \E i \in DOMAIN results : results[i].chunk = chunk
    THEN CHOOSE i \in DOMAIN results : results[i].chunk = chunk
    ELSE 0

\* the fused score of a chunk found by both passes
CombinedScore(vector_score, keyword_score, vector_weight, keyword_weight) ==
    Mul(vector_score, vector_weight) + Mul(keyword_score, keyword_weight)

\* the fused score of a chunk found only by the keyword pass
KeywordOnlyScore(keyword_score, keyword_weight) == Mul(keyword_score, keyword_weight)

\* the vector-only score scaled like the other two
VectorOnlyScore_Scaled(vector_score, vector_weight) == Mul(vector_score, vector_weight)

\* the fused score of a chunk found only by the vector pass
VectorOnlyScore(vector_score, vector_weight) == vector_score

\* _combine_results: the values of combined_map in insertion order
RECURSIVE CombineResults(_, _, _, _)
CombineResults(combined, keyword_results, vector_weight, keyword_weight) ==
    IF keyword_results = <<>> THEN combined
    ELSE LET result == Head(keyword_results)
             at == IndexOf(combined, result.chunk)
             next ==
                IF at # 0
                THEN [combined EXCEPT ![at].similarity_score =
                        CombinedScore(@, result.similarity_score,
                                      vector_weight, keyword_weight)]
                ELSE Append(combined,
                        [result EXCEPT !.similarity_score =
                            KeywordOnlyScore(@, keyword_weight)])
         IN  CombineResults(next, Tail(keyword_results), vector_weight, keyword_weight)

\* the vector results as _combine_results first enters them in combined_map
VectorEntries(vector_results, vector_weight) ==
    [i \in DOMAIN vector_results |->
        [vector_results[i] EXCEPT !.similarity_score = VectorOnlyScore(@, vector_weight)]]

\* list.sort(key=similarity_score, reverse=True): stable, highest score first
RECURSIVE InsertByScore(_, _)
InsertByScore(sorted, x) ==
    IF sorted = <<>> THEN <<x>>
    ELSE IF Head(sorted).similarity_score >= x.similarity_score
         THEN <<Head(sorted)>> \o InsertByScore(Tail(sorted), x)
         ELSE <<x>> \o sorted

RECURSIVE SortByScore(_)
SortByScore(results) ==
    IF results = <<>> THEN <<>>
    ELSE InsertByScore(SortByScore(SubSeq(results, 1, Len(results) - 1)),
                       results[Len(results)])

\* hybrid_search after its two passes: combine, sort, cut to limit
FinalResults(vector_results, keyword_results, limit, vector_weight, keyword_weight) ==
    Take(SortByScore(CombineResults(VectorEntries(vector_results, vector_weight),
                                    keyword_results, vector_weight, keyword_weight)),
         limit)

\* similarity_threshold=0.5 of hybrid_search's vector pass
HybridThreshold == 50

Thresholds == {0, 50, 70, 100}
Weights == {<<70, 30>>, <<50, 50>>}
Queries == {<<"data">>, <<"text", "data">>}
\* what generate_single_embedding may return for the query: a vector or None
QueryEmbeddings == QueryVectors \cup {Null}

InitSearch ==
    /\ store = {} /\ documents = {} /\ sr_pc = "ready" /\ sr_req = <<>> /\ sr_resp = <<>>
    /\ sr_queries = <<>> /\ sr_vector = <<>> /\ sr_keyword = <<>>
    /\ CkIdle /\ EgIdle /\ InIdle

\* DocumentChunkRepository.create
InsertChunk ==
    /\ sr_pc = "ready"
    /\ Cardinality(store) < MaxRows
    /\ \E row \in Rows \ store : store' = store \cup {row}
    /\ UNCHANGED <<documents, sr_pc, sr_req, sr_resp, sr_queries, sr_vector, sr_keyword,
                   ckVars, egVars, inVars>>

\* VectorRetriever.search_similar_chunks
SearchSimilarChunks ==
    /\ sr_pc = "ready"
    /\ \E profile_id \in QueryProfiles, limit \in 1..MaxLimit,
          similarity_threshold \in Thresholds, query_embedding \in QueryEmbeddings :
          /\ sr_req' = [op |-> "search_similar_chunks", profile_id |-> profile_id,
                        limit |-> limit, similarity_threshold |-> similarity_threshold,
                        embedded |-> query_embedding]
          /\ IF query_embedding = Null
             THEN /\ sr_resp' = FailedResponse
                  /\ sr_queries' = <<>>
             ELSE \E chunks \in NearestAnswers(store, profile_id, query_embedding, limit * 2) :
                  /\ sr_resp' = SearchResponse(
                        PerformVectorSearch(chunks, query_embedding, limit,
                                            similarity_threshold),
                        query_embedding)
                  /\ sr_queries' = <<VectorQuery(profile_id, limit)>>
    /\ sr_pc' = "done"
    /\ UNCHANGED <<store, documents, sr_vector, sr_keyword, ckVars, egVars, inVars>>

\* HybridRetriever.hybrid_search
HybridSearch ==
    /\ sr_pc = "ready"
    /\ \E profile_id \in QueryProfiles, limit \in 1..MaxLimit, w \in Weights,
          keywords \in Queries, query_embedding \in QueryEmbeddings :
          /\ sr_req' = [op |-> "hybrid_search", profile_id |-> profile_id,
                        limit |-> limit, vector_weight |-> w[1],
                        keyword_weight |-> w[2], keywords |-> keywords,
                        embedded |-> query_embedding]
          /\ \E nearest \in (IF query_embedding = Null THEN {<<>>}
                             ELSE NearestAnswers(store, profile_id, query_embedding,
                                                 (limit * 2) * 2)),
                matched \in KeywordAnswers(store, profile_id, keywords, limit * 2) :
                LET vector_results ==
                        IF query_embedding = Null THEN <<>>
                        ELSE PerformVectorSearch(nearest, query_embedding, limit * 2,
                                                 HybridThreshold)
                    keyword_results == KeywordSearch(matched, keywords)
                    final_results == FinalResults(vector_results, keyword_results, limit,
                                                  w[1], w[2])
                IN  /\ sr_vector' = vector_results
                    /\ sr_keyword' = keyword_results
                    /\ sr_resp' = SearchResponse(final_results, Null)
                    /\ sr_queries' =
                          (IF query_embedding = Null THEN <<>>
                           ELSE <<VectorQuery(profile_id, limit * 2)>>)
                          \o <<[kind |-> "keyword", profile_id |-> profile_id,
                                limit |-> limit * 2]>>
    /\ sr_pc' = "done"
    /\ UNCHANGED <<store, documents, ckVars, egVars, inVars>>

\* retrieval.py binds no name cosine_distance (it imports cosine_similarity
\* only): with the module as it stands, building the query in
\* _perform_vector_search raises NameError, which nothing catches, and the call
\* ends without a response and without a store query. SearchSimilarChunks and
\* HybridSearch above are the calls with the name bound to the store's cosine
\* distance.
SearchSimilarChunksRaises ==
    /\ sr_pc = "ready"
    /\ \E profile_id \in QueryProfiles, limit \in 1..MaxLimit,
          similarity_threshold \in Thresholds, query_embedding \in QueryVectors :
          sr_req' = [op |-> "search_similar_chunks", profile_id |-> profile_id,
                     limit |-> limit, similarity_threshold |-> similarity_threshold,
                     embedded |-> query_embedding]
    /\ sr_pc' = "raised"
    /\ UNCHANGED <<store, documents, sr_resp, sr_queries, sr_vector, sr_keyword,
                   ckVars, egVars, inVars>>

\* hybrid_search when its vector pass raises: the keyword pass is not reached
HybridSearchRaises ==
    /\ sr_pc = "ready"
    /\ \E profile_id \in QueryProfiles, limit \in 1..MaxLimit, w \in Weights,
          keywords \in Queries, query_embedding \in QueryVectors :
          sr_req' = [op |-> "hybrid_search", profile_id |-> profile_id,
                     limit |-> limit, vector_weight |-> w[1],
                     keyword_weight |-> w[2], keywords |-> keywords,
                     embedded |-> query_embedding]
    /\ sr_pc' = "raised"
    /\ UNCHANGED <<store, documents, sr_resp, sr_queries, sr_vector, sr_keyword,
                   ckVars, egVars, inVars>>

NextSearch ==
    \/ InsertChunk
    \/ SearchSimilarChunks
    \/ SearchSimilarChunksRaises
    \/ HybridSearch
    \/ HybridSearchRaises

SpecSearch == InitSearch /\ [][NextSearch]_vars

(***************************************************************************)
(* VectorRetriever.get_profile_statistics                                  *)
(***************************************************************************)
\* most rows in documents
MaxDocuments == 2

\* model Document: its id, its profile and its processed flag
DocumentRows == [id : 1..MaxDocuments, profile_id : Profiles, processed : BOOLEAN]
\* the tables of documents: id is the primary key
DocumentTables ==
    {D \in SUBSET DocumentRows : \A a, b \in D : a.id = b.id => a = b}
\* chunk rows that differ in what the statistics count: profile and embedding
StatRows == {r \in Rows : r.content.len = 500 /\ \A k \in Vocabulary : r.content.count[k] = 0}
ChunkTables == {S \in SUBSET StatRows : Cardinality(S) <= MaxRows}

\* a / b of two ints; den = 0 stands for the ZeroDivisionError
Quotient(a, b) == [num |-> a, den |-> b]

\* the ratio taken without looking at the denominator
Coverage_Unguarded(part, total) == Quotient(part, total)

\* part / total if total > 0 else 0
Coverage(part, total) == IF total > 0 THEN Quotient(part, total) ELSE Quotient(0, 1)

\* the dictionary get_profile_statistics returns
ProfileStatistics(chunks, docs, profile_id) ==
    LET total_chunks == Cardinality({r \in chunks : r.profile_id = profile_id})
        embedded_chunks ==
            Cardinality({r \in chunks : r.profile_id = profile_id /\ r.embedding # Null})
        total_documents == Cardinality({d \in docs : d.profile_id = profile_id})
        processed_documents ==
            Cardinality({d \in docs : d.profile_id = profile_id /\ d.processed})
    IN  [total_chunks |-> total_chunks,
         embedded_chunks |-> embedded_chunks,
         total_documents |-> total_documents,
         processed_documents |-> processed_documents,
         embedding_coverage |-> Coverage(embedded_chunks, total_chunks),
         processing_coverage |-> Coverage(processed_documents, total_documents)]

InitStats ==
    /\ store \in ChunkTables
    /\ documents \in DocumentTables
    /\ sr_pc = "ready" /\ sr_req = <<>> /\ sr_resp = <<>>
    /\ sr_queries = <<>> /\ sr_vector = <<>> /\ sr_keyword = <<>>
    /\ CkIdle /\ EgIdle /\ InIdle

\* VectorRetriever.get_profile_statistics
GetProfileStatistics ==
    /\ sr_pc = "ready"
    /\ \E profile_id \in Profiles :
          /\ sr_req' = [op |-> "get_profile_statistics", profile_id |-> profile_id]
          /\ sr_resp' = ProfileStatistics(store, documents, profile_id)
    /\ sr_pc' = "done"
    /\ UNCHANGED <<store, documents, sr_queries, sr_vector, sr_keyword,
                   ckVars, egVars, inVars>>

NextStats == GetProfileStatistics

SpecStats == InitStats /\ [][NextStats]_vars

(***************************************************************************)
(* get_profile_statistics one count query per step, while other tasks      *)
(* write.  Each query is its own statement and sees what is committed when *)
(* it runs; sr_queries holds the four counts in the order they were taken. *)
(***************************************************************************)
\* the k-th count query of get_profile_statistics on the tables as they are
CountQuery(k, chunks, docs, profile_id) ==
    IF k = 1 THEN Cardinality({r \in chunks : r.profile_id = profile_id})
    ELSE IF k = 2
    THEN Cardinality({r \in chunks : r.profile_id = profile_id /\ r.embedding # Null})
    ELSE IF k = 3 THEN Cardinality({d \in docs : d.profile_id = profile_id})
    ELSE Cardinality({d \in docs : d.profile_id = profile_id /\ d.processed})

\* the dictionary built from the four counts
StatisticsOf(total_chunks, embedded_chunks, total_documents, processed_documents) ==
    [total_chunks |-> total_chunks,
     embedded_chunks |-> embedded_chunks,
     total_documents |-> total_documents,
     processed_documents |-> processed_documents,
     embedding_coverage |-> Coverage(embedded_chunks, total_chunks),
     processing_coverage |-> Coverage(processed_documents, total_documents)]

InitStatsRace ==
    /\ store = {} /\ documents = {}
    /\ sr_pc = "ready" /\ sr_req = <<>> /\ sr_resp = <<>>
    /\ sr_queries = <<>> /\ sr_vector = <<>> /\ sr_keyword = <<>>
    /\ CkIdle /\ EgIdle /\ InIdle

\* get_profile_statistics executes its next count query
StatisticsCount ==
    /\ sr_pc \in {"ready", "counting"}
    /\ Len(sr_queries) < 4
    /\ \E profile_id \in QueryProfiles :
          /\ sr_pc = "counting" => profile_id = sr_req.profile_id
          /\ sr_req' = [op |-> "get_profile_statistics", profile_id |-> profile_id]
          /\ sr_queries' = Append(sr_queries,
                CountQuery(Len(sr_queries) + 1, store, documents, profile_id))
    /\ sr_pc' = "counting"
    /\ UNCHANGED <<store, documents, sr_resp, sr_vector, sr_keyword,
                   ckVars, egVars, inVars>>

\* get_profile_statistics returns the dictionary
StatisticsReturn ==
    /\ sr_pc = "counting"
    /\ Len(sr_queries) = 4
    /\ sr_resp' = StatisticsOf(sr_queries[1], sr_queries[2], sr_queries[3], sr_queries[4])
    /\ sr_pc' = "done"
    /\ UNCHANGED <<store, documents, sr_req, sr_queries, sr_vector, sr_keyword,
                   ckVars, egVars, inVars>>

\* DocumentChunkRepository.create in another task: the row is committed
CreateChunk ==
    /\ sr_pc \in {"ready", "counting"}
    /\ Cardinality(store) < MaxRows
    /\ \E row \in StatRows \ store : store' = store \cup {row}
    /\ UNCHANGED <<documents, sr_pc, sr_req, sr_resp, sr_queries, sr_vector, sr_keyword,
                   ckVars, egVars, inVars>>

\* DocumentRepository.create in another task: the document starts unprocessed
CreateDocument ==
    /\ sr_pc \in {"ready", "counting"}
    /\ \E row \in DocumentRows :
          /\ ~row.processed
          /\ \A d \in documents : d.id # row.id
          /\ documents' = documents \cup {row}
    /\ UNCHANGED <<store, sr_pc, sr_req, sr_resp, sr_queries, sr_vector, sr_keyword,
                   ckVars, egVars, inVars>>

\* DocumentRepository.mark_processed in another task
MarkDocumentProcessed ==
    /\ sr_pc \in {"ready", "counting"}
    /\ \E d \in documents :
          /\ ~d.processed
          /\ documents' = (documents \ {d}) \cup {[d EXCEPT !.processed = TRUE]}
    /\ UNCHANGED <<store, sr_pc, sr_req, sr_resp, sr_queries, sr_vector, sr_keyword,
                   ckVars, egVars, inVars>>

NextStatsRace ==
    \/ StatisticsCount
    \/ StatisticsReturn
    \/ CreateChunk
    \/ CreateDocument
    \/ MarkDocumentProcessed

SpecStatsRace == InitStatsRace /\ [][NextStatsRace]_vars

(***************************************************************************)
(* Claims                                                                  *)
(***************************************************************************)
\* how a text's provider task ended
TaskFailed(t) == eg_log[t].kind = "exception" \/ eg_log[t].error # None
TaskSucceeded(t) == eg_log[t].kind = "response" /\ eg_log[t].error = None
\* the entries of errors tagged with original index k
ErrorsFor(k) == {e \in DOMAIN eg_out.errors : eg_out.errors[e].index = k}
\* no response of the call carried a usage that is not a mapping
UsageWellFormed == \A t \in 1..eg_in.n : eg_log[t].usage # "other"

\* C1: every chunk returned by chunk_text has
\* min_chunk_size <= len(content) <= max_chunk_size, except that a text shorter
\* than min_chunk_size is returned whole as one single chunk.
C1_ChunkSizeBounds ==
    ck_pc = "done" =>
        IF Len(ck_text) < ck_cfg.min_chunk_size
        THEN Strip(ck_text) # <<>> =>
                /\ Len(ck_out) = 1
                /\ ck_out[1].content = CleanText(ck_text)
        ELSE \A i \in DOMAIN ck_out :
                /\ ck_cfg.min_chunk_size <= Len(ck_out[i].content)
                /\ Len(ck_out[i].content) <= ck_cfg.max_chunk_size

\* C2: whatever the provider and the local fallback do, generate_embeddings
\* returns as many embeddings as texts, slot i holding the vector of texts[i]
\* or the empty/zero placeholder.
C2_SameLengthAndOrder ==
    eg_pc = "done" =>
        /\ Len(eg_out.embeddings) = eg_in.n
        /\ \A t \in DOMAIN eg_out.embeddings :
              eg_out.embeddings[t] \in
                  {ProviderVector(t, eg_in.dim), LocalVector(t), ZeroVector, EmptyVector}

\* C3: when the provider call fails for some texts and succeeds for others, all
\* batches are completed: a failed text's slot holds the zero vector, every
\* other slot that text's provider vector, and errors holds exactly one entry
\* per failed text, tagged with the text's index in the input list.
C3_PartialFailureIsolated ==
    (/\ eg_pc = "done"
     /\ UsageWellFormed
     /\ \E t \in 1..eg_in.n : TaskFailed(t)
     /\ \E t \in 1..eg_in.n : TaskSucceeded(t))
    =>
        /\ Len(eg_out.embeddings) = eg_in.n
        /\ \A t \in 1..eg_in.n :
              /\ TaskFailed(t) =>
                    /\ eg_out.embeddings[t] = ZeroVector
                    /\ Cardinality(ErrorsFor(t - 1)) = 1
              /\ TaskSucceeded(t) =>
                    /\ eg_out.embeddings[t] = ProviderVector(t, eg_in.dim)
                    /\ ErrorsFor(t - 1) = {}
        /\ Len(eg_out.errors) = Cardinality({t \in 1..eg_in.n : TaskFailed(t)})

\* C4: if the provider fails as a whole (no text obtains a provider embedding)
\* and the local model is available, generate_embeddings returns the local
\* model's vector in every slot.
C4_WholeFailureFallsBack ==
    (/\ eg_pc = "done"
     /\ eg_in.n > 0
     /\ eg_in.local_model
     /\ \A t \in 1..eg_in.n : ~TaskSucceeded(t)
     /\ \A e \in DOMAIN eg_out.errors : eg_out.errors[e].tag # "Local embedding failed")
    =>
        eg_out.embeddings = [t \in 1..eg_in.n |-> LocalVector(t)]

\* C9: when background processing of a document with n chunks marks the
\* document processed, exactly n chunks are stored for it, whatever embedding
\* generation did; a chunk whose embedding failed is stored with the zero vector.
C9_NoChunkDropped ==
    db_processed =>
        /\ Len(db_chunks) = eg_in.n
        /\ \A k \in DOMAIN db_chunks :
              /\ db_chunks[k].chunk_index = k - 1
              /\ TaskFailed(k) => db_chunks[k].embedding = ZeroVector

SearchDone == sr_pc = "done" /\ sr_req.op = "search_similar_chunks"
HybridDone == sr_pc = "done" /\ sr_req.op = "hybrid_search"
\* the chunks a list of results names
ChunksOf(results) == {results[i].chunk : i \in DOMAIN results}
\* the score a list of results gives a chunk it names
ScoreIn(results, chunk) == results[IndexOf(results, chunk)].similarity_score
\* the rows of the request's profile that carry an embedding
Embedded == {r \in store : r.profile_id = sr_req.profile_id /\ r.embedding # Null}

C7_FusionScores ==
    HybridDone =>
        LET inVector == ChunksOf(sr_vector)
            inKeyword == ChunksOf(sr_keyword)
            vw == sr_req.vector_weight
            kw == sr_req.keyword_weight
            fused(c) ==
                IF c \in inVector /\ c \in inKeyword
                THEN (ScoreIn(sr_vector, c) * vw) \div 100
                        + (ScoreIn(sr_keyword, c) * kw) \div 100
                ELSE IF c \in inKeyword
                THEN (ScoreIn(sr_keyword, c) * kw) \div 100
                ELSE ScoreIn(sr_vector, c)
        IN  /\ ChunksOf(sr_resp.results) \subseteq inVector \cup inKeyword
            /\ \A i \in DOMAIN sr_resp.results :
                  sr_resp.results[i].similarity_score = fused(sr_resp.results[i].chunk)
            /\ (vw = 70 /\ kw = 30) =>
                  \A b \in inVector \ inKeyword, a \in inKeyword \ inVector :
                      (ScoreIn(sr_vector, b) = 60 /\ ScoreIn(sr_keyword, a) = 80
                       /\ a \in ChunksOf(sr_resp.results))
                      => /\ b \in ChunksOf(sr_resp.results)
                         /\ ScoreIn(sr_resp.results, b) = 60
                         /\ ScoreIn(sr_resp.results, a) = 24
                         /\ IndexOf(sr_resp.results, b) < IndexOf(sr_resp.results, a)

\* a hybrid search with weights 0.7 and 0.3 whose results hold a vector-only
\* chunk of similarity 0.6 ahead of a keyword-only chunk of keyword score 0.8
C7_Witness ==
    /\ HybridDone
    /\ sr_req.vector_weight = 70 /\ sr_req.keyword_weight = 30
    /\ \E i, j \in DOMAIN sr_resp.results :
          LET b == sr_resp.results[i].chunk
              a == sr_resp.results[j].chunk
          IN  /\ i < j
              /\ b \in ChunksOf(sr_vector) \ ChunksOf(sr_keyword)
              /\ a \in ChunksOf(sr_keyword) \ ChunksOf(sr_vector)
              /\ ScoreIn(sr_vector, b) = 60
              /\ ScoreIn(sr_keyword, a) = 80

\* C8: hybrid_search returns at most limit results, sorted by fused score in
\* non-increasing order, each chunk at most once, carrying rank 1, 2, ..., N in
\* that final order.
C8_HybridRanked ==
    HybridDone =>
        /\ Len(sr_resp.results) <= sr_req.limit
        /\ \A i, j \in DOMAIN sr_resp.results :
              i < j => /\ sr_resp.results[i].similarity_score
                            >= sr_resp.results[j].similarity_score
                       /\ sr_resp.results[i].chunk # sr_resp.results[j].chunk
        /\ \A i \in DOMAIN sr_resp.results : sr_resp.results[i].rank = i

\* C10: every chunk returned by search_similar_chunks or by hybrid_search, from
\* its vector pass and from its keyword pass, belongs to the profile asked for.
C10_ProfileIsolation ==
    sr_pc = "done" =>
        \A c \in ChunksOf(sr_resp.results) \cup ChunksOf(sr_vector) \cup ChunksOf(sr_keyword) :
            c.profile_id = sr_req.profile_id

\* a hybrid search that returned chunks from both passes while the other
\* profile holds a chunk with the query's keyword and a chunk as near to the query
C10_Witness ==
    /\ HybridDone
    /\ sr_vector # <<>> /\ sr_keyword # <<>>
    /\ \E r \in store :
          /\ r.profile_id # sr_req.profile_id
          /\ r.content.count["data"] > 0
    /\ \E r \in store :
          /\ r.profile_id # sr_req.profile_id
          /\ r.embedding = <<5, 0>>

\* the contents of a list of chunks
ContentsOf(chunks) == [i \in DOMAIN chunks |-> chunks[i].content]
\* the last piece of the text as split at blank lines
SecondParagraph ==
    LET pieces == SplitBlankLine(ck_text, <<>>) IN pieces[Len(pieces)]

\* contents, in order, spell target from pos on, each one starting o >= 0
\* characters before the end of what was spelt so far (the overlap removed)
RECURSIVE Covers(_, _, _)
Covers(target, contents, pos) ==
    IF contents = <<>> THEN pos = Len(target)
    ELSE LET c == Head(contents) IN
         \E o \in 0..Min(pos, Len(c)) :
            /\ pos - o + Len(c) <= Len(target)
            /\ Slice(target, pos - o, pos - o + Len(c)) = c
            /\ Covers(target, Tail(contents), pos - o + Len(c))

\* C11: with chunk_size = 10 and min_chunk_size = 1, chunk_text on a short
\* paragraph, a blank line and a second paragraph longer than chunk_size returns
\* several chunks for the second paragraph whose contents, in order and with the
\* overlap removed, spell the second paragraph.
C11_SecondParagraphSplit ==
    ck_pc = "done" =>
        \E k \in 1..Len(ck_out) :
            /\ Len(ck_out) - k + 1 >= 2
            /\ Covers(SecondParagraph,
                      SubSeq(ContentsOf(ck_out), k, Len(ck_out)), 0)

\* the texts whose provider request is in flight
InFlight == {t \in DOMAIN eg_log : eg_log[t].kind = "pending"}
\* the batch a text belongs to
BatchOf(t) == (t - 1) \div eg_in.batch_size

\* C12: within a batch, whatever the order in which the concurrent provider
\* calls end, slot i of the provider path's output holds the result of the call
\* made for text i: that text's vector if the call succeeded, a placeholder
\* otherwise.
C12_IndexAddressed ==
    \A t \in DOMAIN eg_prov.embeddings :
        /\ TaskSucceeded(t) => eg_prov.embeddings[t] = ProviderVector(t, eg_in.dim)
        /\ ~TaskSucceeded(t) => eg_prov.embeddings[t] \in {ZeroVector, EmptyVector}

\* a collected batch in which a later text's call ended before an earlier
\* text's, one of the two with a vector
C12_Witness ==
    \E t, u \in DOMAIN eg_prov.embeddings :
        /\ t < u
        /\ BatchOf(t) = BatchOf(u)
        /\ eg_log[u].seq < eg_log[t].seq
        /\ TaskSucceeded(t) \/ TaskSucceeded(u)

\* C13: batches are strictly sequential: a request for a text of a later batch
\* is issued only when every request of the earlier batches has ended, so at
\* most batch_size requests are in flight.
C13_BatchesSequential ==
    /\ Cardinality(InFlight) <= eg_in.batch_size
    /\ \A t, u \in DOMAIN eg_log :
          (BatchOf(t) < BatchOf(u) /\ eg_log[u].kind # "unissued")
              => eg_log[t].seq >= 0

\* the second batch is in flight after a first batch of more than one request
C13_Witness ==
    /\ eg_in.batch_size >= 2
    /\ \E u \in InFlight : BatchOf(u) = 1
    /\ \A t \in DOMAIN eg_log : BatchOf(t) = 0 => eg_log[t].seq >= 0

\* C14: if every provider call fails and there is no local model,
\* generate_embeddings returns len(texts) zero vectors and len(texts) errors.
C14_AllFailNoLocal ==
    (/\ eg_pc = "done"
     /\ ~eg_in.local_model
     /\ \A t \in 1..eg_in.n : TaskFailed(t))
    =>
        /\ eg_out.embeddings = [t \in 1..eg_in.n |-> ZeroVector]
        /\ Len(eg_out.errors) = eg_in.n

\* C15: generate_single_embedding returns a vector only when generate_embeddings
\* produced an embedding for the text with an empty error list; whenever an
\* error was recorded it returns None, and it never returns the zero vector.
C15_SingleEmbedding ==
    eg_pc = "returned" =>
        /\ eg_ret # NoValue =>
              /\ eg_out.errors = <<>>
              /\ Len(eg_out.embeddings) = 1
              /\ eg_ret = eg_out.embeddings[1]
        /\ eg_out.errors # <<>> => eg_ret = NoValue
        /\ eg_ret # ZeroVector

\* the call returned None although the provider path had put the zero vector
\* in the text's slot
C15_Witness ==
    /\ eg_pc = "returned"
    /\ eg_out.errors # <<>>
    /\ eg_out.embeddings = <<ZeroVector>>
    /\ eg_ret = NoValue

\* C16: when generate_single_embedding yields no vector for the query,
\* search_similar_chunks does not raise and does not query the store: it returns
\* empty results, total_results 0, no query_embedding and an error in metadata.
C16_NoEmbeddingShortCircuits ==
    (/\ sr_pc \in {"done", "raised"}
     /\ sr_req.op = "search_similar_chunks"
     /\ sr_req.embedded = Null)
    =>
        /\ sr_pc = "done"
        /\ sr_queries = <<>>
        /\ sr_resp.results = <<>>
        /\ sr_resp.total_results = 0
        /\ sr_resp.query_embedding = Null
        /\ sr_resp.error # ""

\* such a search on a store holding an embedded chunk of the profile
C16_Witness ==
    /\ SearchDone
    /\ sr_req.embedded = Null
    /\ \E r \in Embedded : r.embedding = <<5, 0>>

\* C17: the chunks returned by chunk_text carry chunk_index 0, 1, ..., n-1 in
\* list order, assigned after the size filter and the re-split of oversized
\* chunks.
C17_DenseIndices ==
    ck_pc = "done" =>
        \A i \in DOMAIN ck_out : ck_out[i].chunk_index = i - 1

\* a call that returned several chunks after the filter had dropped or
\* re-split chunks of the strategy's output
C17_Witness ==
    /\ ck_pc = "done"
    /\ Len(ck_out) >= 2
    /\ Len(ck_out) # Len(CascadeChunks(ck_cfg, CleanText(ck_text)))

StatsDone == sr_pc = "done" /\ sr_req.op = "get_profile_statistics"

\* C18: get_profile_statistics never divides by zero: embedding_coverage is
\* exactly 0 for a profile with no chunk and processing_coverage exactly 0 for
\* one with no document; otherwise they are embedded_chunks / total_chunks and
\* processed_documents / total_documents.
C18_CoverageRatios ==
    StatsDone =>
        LET P == sr_req.profile_id
            chunksOfP == {r \in store : r.profile_id = P}
            docsOfP == {d \in documents : d.profile_id = P}
            ec == sr_resp.embedding_coverage
            pc == sr_resp.processing_coverage
        IN  /\ ec.den # 0 /\ pc.den # 0
            /\ chunksOfP = {} => ec.num = 0
            /\ docsOfP = {} => pc.num = 0
            /\ chunksOfP # {} =>
                  ec.num * Cardinality(chunksOfP)
                      = Cardinality({r \in chunksOfP : r.embedding # Null}) * ec.den
            /\ docsOfP # {} =>
                  pc.num * Cardinality(docsOfP)
                      = Cardinality({d \in docsOfP : d.processed}) * pc.den

\* statistics of a profile with no document and no chunk while the other
\* profile has both
C18_Witness ==
    /\ StatsDone
    /\ \A r \in store : r.profile_id # sr_req.profile_id
    /\ \A d \in documents : d.profile_id # sr_req.profile_id
    /\ store # {} /\ documents # {}

\* C19: process_document called with a mime type that is not one of the four
\* get_supported_mime_types lists raises the unsupported-type error before any
\* extractor or the chunker is called, and returns no text, metadata or chunks.
C19_UnsupportedTypeRaises ==
    (pd_pc \in {"returned", "raised"} /\ pd_req.mime_type \notin SupportedMimeTypes) =>
        /\ pd_pc = "raised"
        /\ pd_ret = Raised("ValueError")
        /\ pd_calls = <<>>
        /\ ck_pc = "idle" /\ ck_text = <<>> /\ ck_out = <<>>

\* an image type for a readable file with text in it has been refused
C19_Witness ==
    /\ pd_pc = "raised"
    /\ pd_req.mime_type = "image/png"
    /\ pd_req.file # Unreadable
    /\ Strip(pd_req.file) # <<>>

\* C20: chunk_text on an empty text or a text of whitespace only returns the
\* empty list, whatever the configuration.
C20_BlankTextNoChunks ==
    (ck_pc = "done" /\ \A i \in DOMAIN ck_text : IsSpace(ck_text[i])) => ck_out = <<>>

\* chunk_text has returned for a text of two or more whitespace characters
C20_Witness ==
    /\ ck_pc = "done"
    /\ Len(ck_text) >= 2
    /\ \A i \in DOMAIN ck_text : IsSpace(ck_text[i])
    /\ \E i \in DOMAIN ck_text : ck_text[i] = "\n"

CharactersDone == cw_pc = "done" /\ cw_in.fn = "_chunk_by_characters"
SplitDone == cw_pc = "done" /\ cw_in.fn = "_split_oversized_chunk"

\* the stepwise loops return what the functions used by chunk_text return
WindowLoopsAgree ==
    /\ CharactersDone => cw_chunks = ChunkByCharacters(ck_cfg, ck_text)
    /\ SplitDone =>
          cw_chunks = SplitOversizedChunk(ck_cfg,
                          TextChunk(cw_in.text, cw_in.start_char,
                                    cw_in.start_char + Len(cw_in.text)))

\* C21: with chunk_overlap < chunk_size the spans of the chunks of
\* _chunk_by_characters cover the cleaned text from 0 to its length: every
\* offset of the text lies in some chunk's [start_char, end_char).
C21_WindowsCoverText ==
    (CharactersDone /\ ck_cfg.chunk_overlap < ck_cfg.chunk_size) =>
        \A k \in 0..(Len(ck_text) - 1) :
            \E i \in DOMAIN cw_chunks :
                cw_chunks[i].start_char <= k /\ k < cw_chunks[i].end_char

\* C22: in _chunk_by_characters every window after the first starts exactly
\* chunk_size - chunk_overlap characters after the start of the window before it.
C22_WindowAdvance ==
    [][(/\ ChunkByCharactersStep
        /\ ck_cfg.chunk_overlap < ck_cfg.chunk_size
        /\ cw_start' < Len(cw_in.text))
       => cw_start' = cw_start + ck_cfg.chunk_size - ck_cfg.chunk_overlap]_vars

\* C23: a window that would end before the end of the text ends at the last
\* space inside it if and only if at least min_chunk_size characters lie between
\* the window's start and that space; otherwise it ends at its full length.
C23_BackOffRule ==
    cw_pc \in {"loop", "done"} =>
        \A i \in DOMAIN cw_hist :
            LET h == cw_hist[i]
            IN  h.limit < Len(cw_in.text) =>
                    IF /\ h.last_space >= h.start
                       /\ h.last_space - h.start >= ck_cfg.min_chunk_size
                    THEN h.end = h.last_space
                    ELSE h.end = h.limit

\* C24: the sub-chunks of an oversized chunk are each at most max_chunk_size
\* long, their spans follow one another without gap or overlap from the chunk's
\* start to its end, and each span locates the sub-chunk's content in the text
\* the chunk was cut from.
C24_OversizedResplit ==
    SplitDone =>
        /\ \A i \in DOMAIN cw_chunks : Len(cw_chunks[i].content) <= ck_cfg.max_chunk_size
        /\ cw_chunks # <<>>
        /\ cw_chunks[1].start_char = cw_in.start_char
        /\ cw_chunks[Len(cw_chunks)].end_char = cw_in.start_char + Len(cw_in.text)
        /\ \A i \in 1..(Len(cw_chunks) - 1) :
              cw_chunks[i + 1].start_char = cw_chunks[i].end_char
        /\ \A i \in DOMAIN cw_chunks :
              cw_chunks[i].content
                  = Strip(Slice(ck_text, cw_chunks[i].start_char, cw_chunks[i].end_char))

\* C30: the while loops of _chunk_by_characters and _split_oversized_chunk
\* terminate for chunk_size >= 1, max_chunk_size >= 1, min_chunk_size >= 0 and
\* any chunk_overlap: start grows at every iteration and the method returns.
C30_WindowLoopsTerminate ==
    /\ [][(ChunkByCharactersStep \/ SplitOversizedStep) => cw_start' > cw_start]_vars
    /\ <>(cw_pc = "done")

\* a loop has returned after three or more iterations, one of them backed off
\* to a space, with min_chunk_size = 0 and chunk_overlap >= chunk_size
C30_Witness ==
    /\ cw_pc = "done"
    /\ ck_cfg.min_chunk_size = 0
    /\ ck_cfg.chunk_overlap >= ck_cfg.chunk_size
    /\ Len(cw_hist) >= 3
    /\ \E i \in DOMAIN cw_hist : cw_hist[i].end = cw_hist[i].last_space

\* C25: the chunks stored for a document have pairwise distinct chunk_index
\* values, whatever the order of upload, POST /documents/process requests and
\* background tasks, failed tasks included.
C25_DistinctChunkIndex ==
    up_doc # <<>> =>
        \A i, j \in DOMAIN db_chunks :
            i # j => db_chunks[i].chunk_index # db_chunks[j].chunk_index

\* C28: get_profile_statistics reports embedded_chunks <= total_chunks and
\* processed_documents <= total_documents, and both coverage ratios lie in
\* [0, 1], also when other tasks write between its four count queries.
C28_CountsConsistent ==
    StatsDone =>
        /\ sr_resp.embedded_chunks <= sr_resp.total_chunks
        /\ sr_resp.processed_documents <= sr_resp.total_documents
        /\ 0 <= sr_resp.embedding_coverage.num
        /\ sr_resp.embedding_coverage.num <= sr_resp.embedding_coverage.den
        /\ 0 <= sr_resp.processing_coverage.num
        /\ sr_resp.processing_coverage.num <= sr_resp.processing_coverage.den

\* C26: when the provider path raised as a whole and the local model embedded
\* the text, generate_single_embedding returns the local vector, not None.
C26_FallbackVectorReturned ==
    (/\ eg_pc = "returned"
     /\ eg_out.embeddings # <<>>
     /\ eg_out.embeddings[1].src = "local")
        => eg_ret = eg_out.embeddings[1]

\* C27: in one EmbeddingResult the zero vector put in a failed text's slot has
\* the dimensionality get_embedding_dimensions gives for the call's provider and
\* model, which is that of the provider vectors in the other slots.
C27_ZeroVectorDimension ==
    eg_pc = "done" =>
        \A t \in DOMAIN eg_out.embeddings :
            eg_out.embeddings[t].src = "zero" =>
                /\ eg_out.embeddings[t].dim = GetEmbeddingDimensions(eg_in)
                /\ \A u \in DOMAIN eg_out.embeddings :
                      eg_out.embeddings[u].src = "provider" =>
                          eg_out.embeddings[u].dim = eg_out.embeddings[t].dim

====
